---------------------------- MODULE Spec2Model ----------------------------
(***************************************************************************)
(* Model of the PandorasAutomation protocol engine (client.ts):            *)
(*   - PBClient, the Control Connection: commands, the 200 ms status-poll  *)
(*     scheduler, and the sequence-discovery pipeline;                     *)
(*   - SequenceConnection, one Timecode Connection per watched sequence;   *)
(*   - the frame codec both use.                                           *)
(* Frames are byte sequences (1-based here, 0-based in the source), so the *)
(* decoding steps of handleData are computed as the code computes them.    *)
(* Every action is one run-to-completion step of the Node.js event loop:   *)
(* a public call up to its first await, or one event handler together with *)
(* the promise continuations it releases.                                  *)
(***************************************************************************)
EXTENDS Integers, Sequences, FiniteSets, TLC

(***************************************************************************)
(* Bounds of the model.                                                    *)
(***************************************************************************)
\* sequence IDs are drawn from 1..MaxSeqId
MaxSeqId == 2
\* longest watch list handed to setPollSequences
MaxWatch == 2
\* longest ID list the server returns to "get sequence IDs"
MaxIds == 2
\* number of refreshSequences calls in a behaviour
MaxRefresh == 2
\* number of control sockets created in a behaviour
MaxSockets == 3
\* number of requests that may wait unanswered on one socket
MaxWire == 2
\* number of discarded SequenceConnection objects that still have a
\* callback to come, at any one time
MaxDiscarded == 1

SeqIds == 1..MaxSeqId

(***************************************************************************)
(* Small helpers.                                                          *)
(***************************************************************************)
\* a nullable cursor: null is the empty tuple, a value x is <<x>>
Null == <<>>

Some(x) == <<x>>

\* all sequences over S of length at most n
SeqsUpTo(S, n) == UNION {[1..k -> S] : k \in 0..n}

\* Array.prototype.filter(id => id !== x)
RECURSIVE FilterOut(_, _)
FilterOut(s, x) ==
    IF s = <<>> THEN <<>>
    ELSE IF Head(s) = x THEN FilterOut(Tail(s), x)
         ELSE <<Head(s)>> \o FilterOut(Tail(s), x)

\* Array.prototype.includes
Includes(s, x) == \E i \in 1..Len(s) : s[i] = x

\* the elements of a sequence
Range(s) == {s[i] : i \in 1..Len(s)}

\* a Map<number, _> is a function on the set of its keys
EmptyMap == [k \in {} |-> 0]

MapSet(m, k, v) == [x \in (DOMAIN m) \cup {k} |-> IF x = k THEN v ELSE m[x]]

MapDelete(m, k) == [x \in (DOMAIN m) \ {k} |-> m[x]]

MapHas(m, k) == k \in DOMAIN m

(***************************************************************************)
(* Frame codec.                                                            *)
(***************************************************************************)
\* the CommandId enum is imported from ./constants.js; the numbers below
\* stand for its members and are only required to be pairwise distinct
\* and different from the error sentinel
CommandId ==
    [ SetSeqTransportMode          |-> 3,
      MoveSeqToCue                 |-> 4,
      MoveSeqToLastNextCue         |-> 7,
      IgnoreNextCue                |-> 55,
      ApplyView                    |-> 103,
      SaveProject                  |-> 62,
      ToggleFullscreen             |-> 64,
      SetSiteIp                    |-> 71,
      ClearAllActive               |-> 13,
      StoreActive                  |-> 25,
      StoreActiveToBeginning       |-> 56,
      ResetAll                     |-> 9,
      SetSeqSmpteMode              |-> 41,
      SetSeqSelection              |-> 91,
      GetSeqTransportMode          |-> 72,
      GetSeqTime                   |-> 73,
      GetRemainingTimeUntilNextCue |-> 78,
      GetSequenceIds               |-> 86,
      GetSequenceName              |-> 87 ]

\* the domain the client was constructed with
ConfiguredDomain == 1

\* Buffer.from('PBAU', 'ascii')
Magic == <<80, 66, 65, 85>>

\* the most significant byte of a signed integer, read as signed
Signed8(b) == IF b >= 128 THEN b - 256 ELSE b

\* writeInt: Buffer.writeInt32BE (two's complement, big-endian; \div
\* rounds down and % is never negative, which yields the two's complement)
writeInt(n) ==
    << (n \div 16777216) % 256, (n \div 65536) % 256, (n \div 256) % 256, n % 256 >>

\* writeShort: Buffer.writeUInt16BE
writeShort(n) == << (n \div 256) % 256, n % 256 >>

\* the same integer as the server writes it in the ID list (little-endian)
writeInt32LE(n) ==
    << n % 256, (n \div 256) % 256, (n \div 65536) % 256, (n \div 16777216) % 256 >>

\* Buffer.readInt32BE(off): off is the 0-based offset of the source
readInt32BE(data, off) ==
    Signed8(data[off + 1]) * 16777216 + data[off + 2] * 65536
        + data[off + 3] * 256 + data[off + 4]

\* Buffer.readInt32LE(off)
readInt32LE(data, off) ==
    Signed8(data[off + 4]) * 16777216 + data[off + 3] * 65536
        + data[off + 2] * 256 + data[off + 1]

\* Buffer.readInt16BE(off)
readInt16BE(data, off) ==
    LET u == data[off + 1] * 256 + data[off + 2]
    IN  IF u >= 32768 THEN u - 65536 ELSE u

\* buildHeader: pre-header 1, domain, body length as two bytes, 5 zero bytes
buildHeader(domain, bodyLen) ==
    <<1>> \o writeInt(domain) \o << bodyLen \div 256, bodyLen % 256 >>
          \o <<0, 0, 0, 0, 0>>

\* checksum: sum of the bytes modulo 256
RECURSIVE checksum(_)
checksum(buf) ==
    IF buf = <<>> THEN 0 ELSE (Head(buf) + checksum(Tail(buf))) % 256

\* the message send() builds: magic, header, checksum, body
Message(domain, cmdBytes, payload) ==
    LET body   == cmdBytes \o payload
        header == buildHeader(domain, Len(body))
    IN  Magic \o header \o <<checksum(header)>> \o body

\* concatenation of the byte parts of a payload
RECURSIVE Concat(_)
Concat(parts) ==
    IF parts = <<>> THEN <<>> ELSE Head(parts) \o Concat(Tail(parts))


(***************************************************************************)
(* State.                                                                  *)
(***************************************************************************)
VARIABLES
    pb,         \* the PBClient object: its private fields.  socket is 0 for
                \* null, otherwise the identity of a control socket;
                \* sequenceConnections maps a sequence ID to its
                \* SequenceConnection object
    discarded,  \* SequenceConnection objects that were disconnected and
                \* deleted from the map while a callback of theirs was
                \* still to come
    recon,      \* suspended updateSequenceConnections calls: the sequence
                \* whose conn.connect() each awaits, and the rest of its
                \* sequenceIds argument, which its loop has still to visit
    socks,      \* the control sockets: their state in the network layer
    wire,       \* per control socket, the requests written and not yet answered
    step,       \* the step just taken: operation, frames written,
                \* SequenceConnections constructed, consumer callbacks
                \* invoked, whether the promise it returned was rejected
    disc,       \* the discovery as the server and the consumer see it
    life        \* the consumer's calls: whether disconnect() was the last of
                \* connect, disconnect and setPollSequences, and the watch
                \* set supplied last

vars == <<pb, discarded, recon, socks, wire, step, disc, life>>

\* a consumer callback invocation
Call(name, args) == [cb |-> name, args |-> args]

\* the working copy a handler computes on: the client's fields, the
\* discarded objects, the suspended reconciliations, the sockets, the
\* frames it wrote, the objects it constructed, the callbacks it made,
\* whether socket.write reports an error to its callback (an input) and
\* whether the promise of the operation was rejected
Machine ==
    [pb |-> pb, discarded |-> discarded, recon |-> recon, socks |-> socks,
     written |-> <<>>, created |-> 0, calls |-> <<>>,
     writeFails |-> FALSE, rejected |-> FALSE]

(***************************************************************************)
(* PBClient: send and the two request pipelines.                           *)
(***************************************************************************)
\* send as it would be if it tested the socket alone and not the connecting
\* flag
sendUnlessNoSocket(m, commandId, parts) ==
    IF m.pb.socket = 0
    THEN m
    ELSE IF m.writeFails
    THEN [m EXCEPT !.calls = Append(@, Call("onError", <<"write">>)),
                   !.rejected = TRUE]
    ELSE [m EXCEPT !.written =
             Append(@, Message(ConfiguredDomain, writeShort(commandId), Concat(parts)))]

\* send: a silent no-op without a socket or while connecting, otherwise the
\* message is written to this.socket; an error of the write goes to
\* onError and rejects the promise
send(m, commandId, parts) ==
    IF m.pb.socket = 0 \/ m.pb.connecting
    THEN m
    ELSE IF m.writeFails
    THEN [m EXCEPT !.calls = Append(@, Call("onError", <<"write">>)),
                   !.rejected = TRUE]
    ELSE [m EXCEPT !.written =
             Append(@, Message(ConfiguredDomain, writeShort(commandId), Concat(parts)))]

\* fetchSequenceName
fetchSequenceName(m, seqId) ==
    send([m EXCEPT !.pb.currentSequenceNameId = Some(seqId)],
         CommandId.GetSequenceName, <<writeInt(seqId)>>)

\* processSequenceNameQueue
processSequenceNameQueue(m) ==
    IF Len(m.pb.sequenceNameQueue) = 0
    THEN m
    ELSE LET nextId == Head(m.pb.sequenceNameQueue)
         IN  fetchSequenceName([m EXCEPT !.pb.sequenceNameQueue = Tail(@)], nextId)

\* processStatusRequestQueue as it would be without its first line, the
\* test of statusRequestPending
processStatusRequestQueueUnguarded(m) ==
    IF Len(m.pb.statusRequestQueue) = 0
    THEN [m EXCEPT !.pb.currentStatusRequestId = Null]
    ELSE LET nextId == Head(m.pb.statusRequestQueue)
         IN  send([m EXCEPT !.pb.statusRequestQueue = Tail(@),
                            !.pb.currentStatusRequestId = Some(nextId),
                            !.pb.statusRequestPending = TRUE],
                  CommandId.GetSeqTransportMode, <<writeInt(nextId)>>)

\* processStatusRequestQueue
processStatusRequestQueue(m) ==
    IF m.pb.statusRequestPending
    THEN m
    ELSE IF Len(m.pb.statusRequestQueue) = 0
    THEN [m EXCEPT !.pb.currentStatusRequestId = Null]
    ELSE LET nextId == Head(m.pb.statusRequestQueue)
         IN  send([m EXCEPT !.pb.statusRequestQueue = Tail(@),
                            !.pb.currentStatusRequestId = Some(nextId),
                            !.pb.statusRequestPending = TRUE],
                  CommandId.GetSeqTransportMode, <<writeInt(nextId)>>)

\* stopPolling
stopPolling(m) == [m EXCEPT !.pb.statusPollTimer = FALSE]

\* startPolling: the timer is (re)armed, the pending flag and the queue are
\* reset; currentStatusRequestId is left as it is
startPolling(m) ==
    [stopPolling(m) EXCEPT !.pb.statusRequestPending = FALSE,
                           !.pb.statusRequestQueue = <<>>,
                           !.pb.statusPollTimer = TRUE]

\* a setInterval callback that does nothing
statusPollTickIdle(m) == m

\* the setInterval callback refilling the queue whatever it holds
statusPollTickAlways(m) ==
    processStatusRequestQueue([m EXCEPT !.pb.statusRequestQueue = m.pb.pollSequenceIds])

\* the body of the setInterval callback
statusPollTick(m) ==
    IF Len(m.pb.statusRequestQueue) = 0 /\ Len(m.pb.pollSequenceIds) > 0
    THEN processStatusRequestQueue(
             [m EXCEPT !.pb.statusRequestQueue = m.pb.pollSequenceIds])
    ELSE m

\* SequenceConnection.updateState
connUpdateState(c, state) == [c EXCEPT !.currentState = state]

\* updateSequenceState pushing the state to every SequenceConnection
updateSequenceStateOfAll(m, seqId, state) ==
    [m EXCEPT !.pb.sequenceStates = MapSet(@, seqId, state),
              !.pb.sequenceConnections =
                  [q \in DOMAIN @ |-> connUpdateState(@[q], state)]]

\* updateSequenceState: store the state, push it to the sequence's
\* SequenceConnection (SequenceConnection.updateState) if there is one
updateSequenceState(m, seqId, state) ==
    LET m1 == [m EXCEPT !.pb.sequenceStates = MapSet(@, seqId, state)]
    IN  IF MapHas(m1.pb.sequenceConnections, seqId)
        THEN [m1 EXCEPT !.pb.sequenceConnections[seqId] = connUpdateState(@, state)]
        ELSE m1

\* refreshSequences
refreshSequences(m) ==
    send([m EXCEPT !.pb.pendingSequenceIds = <<>>,
                   !.pb.pendingSequenceNames = EmptyMap,
                   !.pb.sequenceNameQueue = <<>>],
         CommandId.GetSequenceIds, <<>>)

(***************************************************************************)
(* PBClient.handleData.                                                    *)
(***************************************************************************)
\* an exception inside the try block: the catch clause hands it to onError
throwToCatch(m) == [m EXCEPT !.calls = Append(@, Call("onError", <<"RangeError">>))]

\* stateInt === 1 ? 'Play' : stateInt === 2 ? 'Stop' : stateInt === 3 ? 'Pause' : 'Unknown'
TransportStateOf(stateInt) ==
    IF stateInt = 1 THEN "Play"
    ELSE IF stateInt = 2 THEN "Stop"
    ELSE IF stateInt = 3 THEN "Pause"
    ELSE "Unknown"

\* the decimal digits of a natural number, as character codes
RECURSIVE Digits(_)
Digits(n) == IF n < 10 THEN <<48 + n>> ELSE Digits(n \div 10) \o <<48 + (n % 10)>>

\* the template literal `Sequence ${id}`, as character codes
SequenceLabel(id) ==
    <<83, 101, 113, 117, 101, 110, 99, 101, 32>>
        \o (IF id < 0 THEN <<45>> \o Digits(-id) ELSE Digits(id))

\* case CommandId.GetSeqTransportMode
handleSeqTransportMode(m, data) ==
    LET m1 == [m EXCEPT !.pb.statusRequestPending = FALSE]
    IN  IF Len(data) >= 23
        THEN LET state == TransportStateOf(readInt32BE(data, 19))
                 cur   == m1.pb.currentStatusRequestId
             IN  IF cur # Null
                 THEN LET m2 == updateSequenceState(m1, cur[1], state)
                          m3 == [m2 EXCEPT !.calls =
                                    Append(@, Call("onSequenceTransport", <<cur[1], state>>))]
                      IN  processStatusRequestQueue(m3)
                 ELSE [m1 EXCEPT !.calls = Append(@, Call("onTransport", <<state>>))]
        ELSE m1

\* case CommandId.GetRemainingTimeUntilNextCue: four reads, the last at
\* offset 31; a read past the end of the buffer throws
handleNextCueTime(m, data) ==
    IF Len(data) < 35
    THEN throwToCatch(m)
    ELSE [m EXCEPT !.calls = Append(@, Call("onNextCueTime",
             << readInt32BE(data, 19), readInt32BE(data, 23),
                readInt32BE(data, 27), readInt32BE(data, 31) >>))]

\* the IDs the loop of the GetSequenceIds case reads: i < count and
\* offset + 4 <= data.length, from offset 27 on, little-endian
ParsedSequenceIds(data) ==
    LET count == readInt32BE(data, 19)
        room  == IF Len(data) >= 27 THEN (Len(data) - 27) \div 4 ELSE 0
        n     == IF count < 0 THEN 0 ELSE IF count < room THEN count ELSE room
    IN  [i \in 1..n |-> readInt32LE(data, 27 + 4 * (i - 1))]

\* case CommandId.GetSequenceIds
handleSequenceIds(m, data) ==
    IF Len(data) < 23
    THEN throwToCatch(m)
    ELSE LET ids == ParsedSequenceIds(data)
         IN  processSequenceNameQueue(
                 [m EXCEPT !.pb.pendingSequenceIds = ids,
                           !.pb.sequenceNameQueue = ids,
                           !.pb.pendingSequenceNames = EmptyMap])

\* the name the loop of the GetSequenceName case builds: i < strLen and
\* 21 + i < data.length
ParsedName(data) ==
    LET strLen == readInt16BE(data, 19)
        room   == Len(data) - 21
        n      == IF strLen < 0 THEN 0 ELSE IF strLen < room THEN strLen ELSE room
    IN  [i \in 1..n |-> data[21 + i]]

\* this.pendingSequenceNames.get(id) || `Sequence ${id}`: the label stands
\* in for a missing name and for the empty string alike
NameOrLabel(names, id) ==
    IF MapHas(names, id) /\ names[id] # <<>> THEN names[id] ELSE SequenceLabel(id)

\* pendingSequenceIds.map(id => ({id, name}))
SequenceInfos(ids, names) ==
    [i \in 1..Len(ids) |-> [id |-> ids[i], name |-> NameOrLabel(names, ids[i])]]

\* the completion test of the GetSequenceName case
AllNamesArrived(p) ==
    Cardinality(DOMAIN p.pendingSequenceNames) = Len(p.pendingSequenceIds)

\* case CommandId.GetSequenceName
handleSequenceName(m, data) ==
    IF m.pb.currentSequenceNameId = Null
    THEN m
    ELSE IF Len(data) < 21
    THEN throwToCatch(m)
    ELSE LET cur == m.pb.currentSequenceNameId[1]
             m1  == [m EXCEPT !.pb.pendingSequenceNames = MapSet(@, cur, ParsedName(data)),
                              !.pb.currentSequenceNameId = Null]
         IN  IF AllNamesArrived(m1.pb)
             THEN [m1 EXCEPT !.calls = Append(@, Call("onSequencesUpdated",
                      <<SequenceInfos(m1.pb.pendingSequenceIds, m1.pb.pendingSequenceNames)>>))]
             ELSE processSequenceNameQueue(m1)

\* the status branch of the error case
handleErrorStatus(m) ==
    IF m.pb.currentStatusRequestId # Null
    THEN LET invalidId == m.pb.currentStatusRequestId[1]
         IN  processStatusRequestQueue(
                 [m EXCEPT !.pb.pollSequenceIds = FilterOut(@, invalidId)])
    ELSE m

\* the name branch of the error case
handleErrorName(m) ==
    IF m.pb.currentSequenceNameId # Null
    THEN LET invalidId == m.pb.currentSequenceNameId[1]
         IN  processSequenceNameQueue(
                 [m EXCEPT !.pb.pendingSequenceIds = FilterOut(@, invalidId),
                           !.pb.currentSequenceNameId = Null])
    ELSE m

\* case 0xFFFF / case -1: both branches run, one after the other
handleErrorReply(m) == handleErrorName(handleErrorStatus(m))

\* the header checks as they would be without the comparison of the domain
FrameAcceptedAnyDomain(data, domain) ==
    /\ Len(data) >= 19
    /\ SubSeq(data, 1, 4) = Magic

\* the header checks every inbound buffer passes first
FrameAccepted(data, domain) ==
    /\ Len(data) >= 19
    /\ SubSeq(data, 1, 4) = Magic
    /\ readInt32BE(data, 5) = domain

\* PBClient.handleData
handleData(m, data) ==
    IF ~FrameAccepted(data, ConfiguredDomain)
    THEN m
    ELSE LET cmdId == readInt16BE(data, 17)
         IN  CASE cmdId = CommandId.GetSeqTransportMode -> handleSeqTransportMode(m, data)
               [] cmdId = CommandId.GetRemainingTimeUntilNextCue -> handleNextCueTime(m, data)
               [] cmdId = CommandId.GetSequenceIds -> handleSequenceIds(m, data)
               [] cmdId = CommandId.GetSequenceName -> handleSequenceName(m, data)
               [] cmdId = 65535 \/ cmdId = -1 -> handleErrorReply(m)
               [] OTHER -> m

(***************************************************************************)
(* SequenceConnection (Timecode Connection).  An object is a record:       *)
(*   seqId, socket (TRUE when this.socket is set), connected, pollTimer    *)
(*   ("none": null, "armed": a timeout is scheduled, "fired": the handle   *)
(*   of a timeout that already ran), interval (of the scheduled timeout),  *)
(*   currentState, and, of the network layer, net (the state of the one    *)
(*   socket the object ever creates: "connecting", "open", "destroyed"     *)
(*   while the 'close' event of destroy() is still to come, "closed"),     *)
(*   writing (a write callback is outstanding and the timer callback is    *)
(*   suspended on it) and unanswered (time requests written to an open     *)
(*   socket and not answered).                                             *)
(***************************************************************************)
POLL_FAST == 33

POLL_SLOW == 200

\* a constructor that would start the object in state "Play"
NewSequenceConnectionPlaying(seqId) ==
    [seqId |-> seqId, socket |-> FALSE, connected |-> FALSE, pollTimer |-> "none",
     interval |-> 0, currentState |-> "Play", net |-> "none",
     writing |-> FALSE, unanswered |-> 0]

\* new SequenceConnection(host, domain, seqId, onTime, undefined)
NewSequenceConnection(seqId) ==
    [seqId |-> seqId, socket |-> FALSE, connected |-> FALSE, pollTimer |-> "none",
     interval |-> 0, currentState |-> "Unknown", net |-> "none",
     writing |-> FALSE, unanswered |-> 0]

\* SequenceConnection.stopPolling
connStopPolling(c) == [c EXCEPT !.pollTimer = "none", !.interval = 0]

\* scheduleNextPoll with the slow interval whatever the state
connScheduleNextPollSlow(c) == [c EXCEPT !.pollTimer = "armed", !.interval = POLL_SLOW]

\* SequenceConnection.scheduleNextPoll: the interval follows currentState
connScheduleNextPoll(c) ==
    [c EXCEPT !.pollTimer = "armed",
              !.interval = IF c.currentState = "Play" THEN POLL_FAST ELSE POLL_SLOW]

\* SequenceConnection.startPolling
connStartPolling(c) == connScheduleNextPoll(connStopPolling(c))

\* SequenceConnection.connect up to its await: a socket is created and the
\* connection attempt starts
connConnect(c) ==
    IF c.socket THEN c ELSE [c EXCEPT !.socket = TRUE, !.net = "connecting"]

\* SequenceConnection.disconnect: socket.destroy() ends the connection
\* attempt or the connection; its 'close' event is still to come
connDisconnect(c) ==
    LET c1 == connStopPolling(c)
        c2 == IF c1.socket
              THEN [c1 EXCEPT !.socket = FALSE, !.unanswered = 0,
                              !.net = IF @ \in {"connecting", "open"} THEN "destroyed" ELSE @]
              ELSE c1
    IN  [c2 EXCEPT !.connected = FALSE]

\* the 'close' handler of a SequenceConnection's socket
connOnClose(c) ==
    connStopPolling([c EXCEPT !.connected = FALSE, !.socket = FALSE,
                              !.net = "closed", !.unanswered = 0])

\* the 'error' handler (the rejection is seen by the awaiting caller), and
\* the 'close' event Node emits right after 'error'
connOnError(c) == connOnClose([c EXCEPT !.connected = FALSE, !.socket = FALSE])

\* the callback of sock.connect: connected = true, resolve(), startPolling()
connOnConnected(c) == connStartPolling([c EXCEPT !.connected = TRUE, !.net = "open"])

\* the guard of the timer callback and of SequenceConnection.send
connCanSend(c) == c.connected /\ c.socket

\* the setTimeout callback up to its await: nothing when not connected,
\* otherwise sendGetTime writes the request and awaits the write callback
connOnTimer(c) ==
    LET c1 == [c EXCEPT !.pollTimer = "fired", !.interval = 0]
    IN  IF connCanSend(c1)
        THEN [c1 EXCEPT !.writing = TRUE, !.unanswered = @ + 1]
        ELSE c1

\* the write callback, with or without an error: the timer callback runs
\* on (an error is caught and logged) and schedules the next poll
connOnWriteDone(c) == connScheduleNextPoll([c EXCEPT !.writing = FALSE])

\* sendGetTime: the message SequenceConnection.send writes
connGetTimeMessage(c) ==
    Message(ConfiguredDomain, writeShort(CommandId.GetSeqTime), writeInt(c.seqId))

\* SequenceConnection.handleData: the callbacks it makes (onTime is the
\* closure of updateSequenceConnections, which calls onSequenceTime)
connHandleData(c, data) ==
    IF ~FrameAccepted(data, ConfiguredDomain)
    THEN <<>>
    ELSE IF readInt16BE(data, 17) = CommandId.GetSeqTime /\ Len(data) >= 35
    THEN << Call("onSequenceTime",
              << c.seqId, readInt32BE(data, 19), readInt32BE(data, 23),
                 readInt32BE(data, 27), readInt32BE(data, 31) >>) >>
    ELSE <<>>

\* a discarded object is kept while a callback of its own can still change
\* it: a write callback, or a timeout it scheduled
HasCallbacks(c) == c.writing \/ c.pollTimer = "armed"

(***************************************************************************)
(* PBClient: reconciliation of the SequenceConnections with the watch set. *)
(***************************************************************************)
\* conn.disconnect() on the object of seqId, which its caller then deletes
\* from the map.  A connect() promise of a socket that is destroyed while
\* connecting never settles: the reconciliation awaiting it never runs
\* again and is dropped from recon.
disconnectConn(m, seqId) ==
    LET c == connDisconnect(m.pb.sequenceConnections[seqId])
    IN  [m EXCEPT !.pb.sequenceConnections[seqId] = c,
                  !.recon = {r \in @ : r.await # seqId},
                  !.discarded = IF HasCallbacks(c) THEN @ \cup {c} ELSE @]

\* the first loop of updateSequenceConnections: disconnect and delete the
\* connection of every sequence that is not in sequenceIds
RECURSIVE removeUnlisted(_, _, _)
removeUnlisted(m, sequenceIds, keys) ==
    IF keys = {} THEN m
    ELSE LET seqId == CHOOSE x \in keys : TRUE
             m1 == IF Includes(sequenceIds, seqId)
                   THEN m
                   ELSE [disconnectConn(m, seqId)
                            EXCEPT !.pb.sequenceConnections = MapDelete(@, seqId)]
         IN  removeUnlisted(m1, sequenceIds, keys \ {seqId})

\* the second loop of updateSequenceConnections over the IDs it has still
\* to visit, up to the next await: the first sequence without a connection
\* gets a new object, which is put in the map and connected; the call is
\* suspended on it
RECURSIVE createMissing(_, _)
createMissing(m, rest) ==
    IF rest = <<>> THEN m
    ELSE IF MapHas(m.pb.sequenceConnections, Head(rest))
    THEN createMissing(m, Tail(rest))
    ELSE [m EXCEPT !.pb.sequenceConnections =
                       MapSet(@, Head(rest), connConnect(NewSequenceConnection(Head(rest)))),
                   !.created = @ + 1,
                   !.recon = @ \cup {[await |-> Head(rest), rest |-> Tail(rest)]}]

\* updateSequenceConnections up to its first await
updateSequenceConnections(m, sequenceIds) ==
    createMissing(removeUnlisted(m, sequenceIds, DOMAIN m.pb.sequenceConnections),
                  sequenceIds)

\* setPollSequences
setPollSequences(m, sequenceIds) ==
    updateSequenceConnections([m EXCEPT !.pb.pollSequenceIds = sequenceIds], sequenceIds)

\* the continuation of updateSequenceConnections after await conn.connect()
\* settled for the object of seqId; a rejection is caught and reported
\* through onDebug
resumeReconciliation(m, seqId, failed) ==
    IF \E r \in m.recon : r.await = seqId
    THEN LET r  == CHOOSE x \in m.recon : x.await = seqId
             m1 == [m EXCEPT !.recon = @ \ {r},
                             !.calls = IF failed
                                       THEN Append(@, Call("onDebug", <<seqId>>))
                                       ELSE @]
         IN  createMissing(m1, r.rest)
    ELSE m

\* disconnectAllSequenceConnections
RECURSIVE disconnectEach(_, _)
disconnectEach(m, keys) ==
    IF keys = {} THEN m
    ELSE LET seqId == CHOOSE x \in keys : TRUE
         IN  disconnectEach(disconnectConn(m, seqId), keys \ {seqId})

disconnectAllSequenceConnections(m) ==
    [disconnectEach(m, DOMAIN m.pb.sequenceConnections)
        EXCEPT !.pb.sequenceConnections = EmptyMap]

(***************************************************************************)
(* PBClient: connect and disconnect.  A control socket is "connecting",    *)
(* "open", "destroyed" (destroy() was called, its 'close' event is still   *)
(* to come) or "closed".                                                   *)
(***************************************************************************)
\* connect without its first line: a socket is opened whatever this.socket is
connectAgain(m) ==
    [m EXCEPT !.pb.connecting = TRUE,
              !.socks = Append(@, "connecting"),
              !.pb.socket = Len(m.socks) + 1]

\* connect up to its await
connect(m) ==
    IF m.pb.socket # 0
    THEN m
    ELSE [m EXCEPT !.pb.connecting = TRUE,
                   !.socks = Append(@, "connecting"),
                   !.pb.socket = Len(m.socks) + 1]

\* the callback of sock.connect
onConnected(m, s) ==
    startPolling([m EXCEPT !.pb.connecting = FALSE, !.socks[s] = "open"])

\* the 'close' handler
onClose(m, s) ==
    stopPolling([m EXCEPT !.pb.connecting = FALSE, !.pb.socket = 0, !.socks[s] = "closed"])

\* the 'error' handler, and the 'close' event Node emits right after 'error'
onError(m, s) ==
    onClose([m EXCEPT !.pb.connecting = FALSE, !.pb.socket = 0,
                      !.calls = Append(@, Call("onError", <<"socket">>))], s)

\* disconnect
disconnect(m) ==
    LET m1 == disconnectAllSequenceConnections(stopPolling(m))
    IN  IF m1.pb.socket # 0
        THEN [m1 EXCEPT !.socks[m1.pb.socket] = "destroyed", !.pb.socket = 0]
        ELSE m1

(***************************************************************************)
(* PBClient: the command operations.  Each builds its payload and sends.   *)
(***************************************************************************)
CommandOps ==
    {"setTransport", "selectSequence", "gotoCue", "nextOrLastCue", "ignoreNextCue",
     "applyView", "saveProject", "toggleFullscreen", "setSiteIp", "clearAllActive",
     "storeActive", "storeActiveToBeginning", "resetAll", "setSequenceSmpteMode"}

\* Buffer.from(ip, 'ascii') for the two site addresses the model uses: the
\* empty string and "1.1"
IpBytes(b) == IF b = 0 THEN <<>> ELSE <<49, 46, 49>>

\* the command identifier and the payload parts of operation op with
\* arguments a (a sequence, view or site ID) and b (a mode, cue or flag)
commandFrame(op, a, b) ==
    CASE op = "setTransport"   -> [id |-> CommandId.SetSeqTransportMode, parts |-> <<writeInt(a), writeInt(b)>>]
      [] op = "selectSequence" -> [id |-> CommandId.SetSeqSelection, parts |-> <<writeInt(a)>>]
      [] op = "gotoCue"        -> [id |-> CommandId.MoveSeqToCue, parts |-> <<writeInt(a), writeInt(b)>>]
      [] op = "nextOrLastCue"  -> [id |-> CommandId.MoveSeqToLastNextCue, parts |-> <<writeInt(a), <<IF b # 0 THEN 1 ELSE 0>> >>]
      [] op = "ignoreNextCue"  -> [id |-> CommandId.IgnoreNextCue, parts |-> <<writeInt(a), <<IF b # 0 THEN 1 ELSE 0>> >>]
      [] op = "applyView"      -> [id |-> CommandId.ApplyView, parts |-> <<writeInt(a)>>]
      [] op = "saveProject"    -> [id |-> CommandId.SaveProject, parts |-> <<>>]
      [] op = "toggleFullscreen" -> [id |-> CommandId.ToggleFullscreen, parts |-> <<writeInt(a)>>]
      [] op = "setSiteIp"      -> [id |-> CommandId.SetSiteIp, parts |-> <<writeInt(a), writeShort(Len(IpBytes(b))), IpBytes(b)>>]
      [] op = "clearAllActive" -> [id |-> CommandId.ClearAllActive, parts |-> <<>>]
      [] op = "storeActive"    -> [id |-> CommandId.StoreActive, parts |-> <<writeInt(a)>>]
      [] op = "storeActiveToBeginning" -> [id |-> CommandId.StoreActiveToBeginning, parts |-> <<writeInt(a)>>]
      [] op = "resetAll"       -> [id |-> CommandId.ResetAll, parts |-> <<>>]
      [] op = "setSequenceSmpteMode" -> [id |-> CommandId.SetSeqSmpteMode, parts |-> <<writeInt(a), writeInt(b)>>]

\* a command operation: await this.send(...)
command(m, op, a, b) == send(m, commandFrame(op, a, b).id, commandFrame(op, a, b).parts)

(***************************************************************************)
(* The server and the network.                                             *)
(***************************************************************************)
\* the transport-state integers the server answers with
StateInts == 0..4

\* Play and Stop: the status replies that tell the two poll rates apart
PlayStop == {1, 2}

\* the sequence names the server answers with: "", "A", "B"
Names == {<<>>, <<65>>, <<66>>}

\* the lists of at most n IDs without repetition
ListsUpTo(n) == {ids \in SeqsUpTo(SeqIds, n) :
                    \A i, j \in 1..Len(ids) : ids[i] = ids[j] => i = j}

\* the ID lists the server answers with
IdLists == ListsUpTo(MaxIds)

\* the watch lists the consumer hands to setPollSequences
WatchLists == ListsUpTo(MaxWatch)

\* a frame of the server for the configured domain
StatusReply(stateInt) ==
    Message(ConfiguredDomain, writeShort(CommandId.GetSeqTransportMode), writeInt(stateInt))

ErrorReply == Message(ConfiguredDomain, <<255, 255>>, <<>>)

RECURSIVE IdBytesLE(_)
IdBytesLE(ids) ==
    IF ids = <<>> THEN <<>> ELSE writeInt32LE(Head(ids)) \o IdBytesLE(Tail(ids))

IdsReply(ids) ==
    Message(ConfiguredDomain, writeShort(CommandId.GetSequenceIds),
            writeInt(Len(ids)) \o writeInt(0) \o IdBytesLE(ids))

NameReply(name) ==
    Message(ConfiguredDomain, writeShort(CommandId.GetSequenceName),
            writeShort(Len(name)) \o name)

TimeReply(h, mi, sec, f) ==
    Message(ConfiguredDomain, writeShort(CommandId.GetSeqTime),
            writeInt(h) \o writeInt(mi) \o writeInt(sec) \o writeInt(f))

NextCueReply(h, mi, sec, f) ==
    Message(ConfiguredDomain, writeShort(CommandId.GetRemainingTimeUntilNextCue),
            writeInt(h) \o writeInt(mi) \o writeInt(sec) \o writeInt(f))

\* the command identifier and the first argument of a request, as the
\* server reads them
RequestCmd(req) == readInt16BE(req, 17)

RequestArg(req) == readInt32BE(req, 19)

\* the requests the server answers; the wire holds these until answered
ExpectsReply(req) ==
    RequestCmd(req) \in {CommandId.GetSeqTransportMode, CommandId.GetSequenceIds,
                         CommandId.GetSequenceName}

RECURSIVE SelectRequests(_)
SelectRequests(frames) ==
    IF frames = <<>> THEN <<>>
    ELSE IF ExpectsReply(Head(frames)) THEN <<Head(frames)>> \o SelectRequests(Tail(frames))
         ELSE SelectRequests(Tail(frames))

\* number of requests with command identifier cmd waiting on a wire
RECURSIVE CountCmd(_, _)
CountCmd(w, cmd) ==
    IF w = <<>> THEN 0
    ELSE (IF RequestCmd(Head(w)) = cmd THEN 1 ELSE 0) + CountCmd(Tail(w), cmd)

(***************************************************************************)
(* Initial state: a PBClient right after its constructor.                  *)
(***************************************************************************)
InitPb ==
    [socket |-> 0, connecting |-> FALSE, statusPollTimer |-> FALSE,
     pendingSequenceIds |-> <<>>, pendingSequenceNames |-> EmptyMap,
     sequenceNameQueue |-> <<>>, currentSequenceNameId |-> Null,
     pollSequenceIds |-> <<>>, statusRequestQueue |-> <<>>,
     currentStatusRequestId |-> Null, statusRequestPending |-> FALSE,
     sequenceStates |-> EmptyMap, sequenceConnections |-> EmptyMap]

\* the step record of an operation
StepOf(op, m) ==
    [op |-> op, written |-> Len(m.written), created |-> m.created,
     calls |-> m.calls, rejected |-> m.rejected]

\* the discovery seen from outside: refreshSequences calls so far, and since
\* the last call the ID list of the server's ID reply (Null before it), the
\* server's answers to name requests, and the lists the consumer was given
InitDisc == [runs |-> 0, ids |-> Null, answers |-> <<>>, notified |-> <<>>]

\* whether disconnect() was the consumer's last call among connect,
\* disconnect and setPollSequences, and the watch set it supplied last
InitLife == [disconnected |-> FALSE, supplied |-> {}]

Init ==
    /\ pb = InitPb
    /\ discarded = {}
    /\ recon = {}
    /\ socks = <<>>
    /\ wire = <<>>
    /\ step = [op |-> "new", written |-> 0, created |-> 0, calls |-> <<>>,
               rejected |-> FALSE]
    /\ disc = InitDisc
    /\ life = InitLife

\* the lists handed to onSequencesUpdated among the callbacks of a step
RECURSIVE UpdatesIn(_)
UpdatesIn(calls) ==
    IF calls = <<>> THEN <<>>
    ELSE IF Head(calls).cb = "onSequencesUpdated"
         THEN <<Head(calls).args[1]>> \o UpdatesIn(Tail(calls))
         ELSE UpdatesIn(Tail(calls))

\* the wires after a step: base is the wires with the answered request
\* removed; the requests written go to the socket this.socket named when
\* they were sent; nothing is ever answered on a socket that is gone
WiresAfter(m, base) ==
    [s \in 1..Len(m.socks) |->
        IF m.socks[s] \notin {"connecting", "open"} THEN <<>>
        ELSE (IF s <= Len(base) THEN base[s] ELSE <<>>)
             \o (IF s = pb.socket THEN SelectRequests(m.written) ELSE <<>>)]

\* the state after a handler has run on the working copy m
Commit(m, op, base) ==
    /\ Len(m.socks) <= MaxSockets
    /\ \A s \in 1..Len(m.socks) : Len(WiresAfter(m, base)[s]) <= MaxWire
    /\ pb' = m.pb
    /\ Cardinality({c \in m.discarded : HasCallbacks(c)}) <= MaxDiscarded
    /\ discarded' = {c \in m.discarded : HasCallbacks(c)}
    /\ recon' = m.recon
    /\ socks' = m.socks
    /\ wire' = WiresAfter(m, base)
    /\ step' = StepOf(op, m)

(***************************************************************************)
(* The consumer's calls.                                                   *)
(***************************************************************************)
Connect ==
    /\ Commit(connect(Machine), "connect", wire)
    /\ life' = [life EXCEPT !.disconnected = FALSE]
    /\ UNCHANGED disc

Disconnect ==
    /\ Commit(disconnect(Machine), "disconnect", wire)
    /\ life' = [life EXCEPT !.disconnected = TRUE]
    /\ UNCHANGED disc

SetPollSequences ==
    \E sequenceIds \in WatchLists :
        /\ Commit(setPollSequences(Machine, sequenceIds), "setPollSequences", wire)
        /\ life' = [disconnected |-> FALSE, supplied |-> Range(sequenceIds)]
        /\ UNCHANGED disc

RefreshSequences ==
    /\ disc.runs < MaxRefresh
    /\ Commit(refreshSequences(Machine), "refreshSequences", wire)
    /\ disc' = [runs |-> disc.runs + 1, ids |-> Null, answers |-> <<>>, notified |-> <<>>]
    /\ UNCHANGED life

Command ==
    \E op \in CommandOps, a \in SeqIds, b \in 0..1, fails \in BOOLEAN :
        /\ Commit(command([Machine EXCEPT !.writeFails = fails], op, a, b), op, wire)
        /\ UNCHANGED <<disc, life>>

(***************************************************************************)
(* Events of the control socket s.                                         *)
(***************************************************************************)
SockConnected(s) ==
    /\ socks[s] = "connecting"
    /\ Commit(onConnected(Machine, s), "connected", wire)
    /\ UNCHANGED <<disc, life>>

SockError(s) ==
    /\ socks[s] \in {"connecting", "open"}
    /\ Commit(onError(Machine, s), "error", wire)
    /\ UNCHANGED <<disc, life>>

SockClose(s) ==
    /\ socks[s] \in {"destroyed", "open"}
    /\ Commit(onClose(Machine, s), "close", wire)
    /\ UNCHANGED <<disc, life>>

\* the setInterval callback of startPolling
Tick ==
    /\ pb.statusPollTimer
    /\ Commit(statusPollTick(Machine), "tick", wire)
    /\ UNCHANGED <<disc, life>>

\* the 'data' handler of socket s runs on frame data, which answers the
\* oldest request waiting on s; d is disc with the server's answer noted
Deliver(s, data, op, d) ==
    LET m == handleData(Machine, data)
    IN  /\ Commit(m, op, [wire EXCEPT ![s] = Tail(@)])
        /\ disc' = [d EXCEPT !.notified = @ \o UpdatesIn(m.calls)]
        /\ UNCHANGED life

Answerable(s, cmd) ==
    /\ socks[s] = "open"
    /\ wire[s] # <<>>
    /\ RequestCmd(Head(wire[s])) = cmd

\* the server answers a status request with one of the state integers K
StatusReplyArrives(s, K) ==
    /\ Answerable(s, CommandId.GetSeqTransportMode)
    /\ \E k \in K : Deliver(s, StatusReply(k), "statusReply", disc)

IdsReplyArrives(s) ==
    /\ Answerable(s, CommandId.GetSequenceIds)
    /\ \E ids \in IdLists :
          Deliver(s, IdsReply(ids), "idsReply", [disc EXCEPT !.ids = Some(ids)])

NameReplyArrives(s) ==
    /\ Answerable(s, CommandId.GetSequenceName)
    /\ \E n \in Names :
          Deliver(s, NameReply(n), "nameReply",
                  [disc EXCEPT !.answers =
                      Append(@, [id |-> RequestArg(Head(wire[s])), name |-> Some(n)])])

\* the server answers a status request with the error sentinel
StatusErrorArrives(s) ==
    /\ Answerable(s, CommandId.GetSeqTransportMode)
    /\ Deliver(s, ErrorReply, "statusError", disc)

\* the server answers a name request with the error sentinel
NameErrorArrives(s) ==
    /\ Answerable(s, CommandId.GetSequenceName)
    /\ Deliver(s, ErrorReply, "nameError",
               [disc EXCEPT !.answers =
                   Append(@, [id |-> RequestArg(Head(wire[s])), name |-> Null])])

(***************************************************************************)
(* Events of the SequenceConnection that the map holds for sequence q.     *)
(***************************************************************************)
ConnOf(q) == pb.sequenceConnections[q]

\* the callback of sock.connect; the reconciliation awaiting this object
\* then runs on
ConnConnected(q) ==
    /\ ConnOf(q).net = "connecting"
    /\ Commit(resumeReconciliation(
                  [Machine EXCEPT !.pb.sequenceConnections[q] = connOnConnected(@)], q, FALSE),
              "connConnected", wire)
    /\ UNCHANGED <<disc, life>>

\* 'error' then 'close' on the object's socket; a pending connect() rejects
ConnError(q) ==
    /\ ConnOf(q).net \in {"connecting", "open"}
    /\ Commit(resumeReconciliation(
                  [Machine EXCEPT !.pb.sequenceConnections[q] = connOnError(@)], q, TRUE),
              "connError", wire)
    /\ UNCHANGED <<disc, life>>

\* the server closes the connection
ConnClose(q) ==
    /\ ConnOf(q).net = "open"
    /\ Commit([Machine EXCEPT !.pb.sequenceConnections[q] = connOnClose(@)],
              "connClose", wire)
    /\ UNCHANGED <<disc, life>>

\* the setTimeout callback of scheduleNextPoll, up to its await
ConnTimer(q) ==
    /\ ConnOf(q).pollTimer = "armed"
    /\ connOnTimer(ConnOf(q)).unanswered <= MaxWire
    /\ Commit([Machine EXCEPT !.pb.sequenceConnections[q] = connOnTimer(@),
                              !.written = IF connCanSend(ConnOf(q))
                                          THEN <<connGetTimeMessage(ConnOf(q))>> ELSE <<>>],
              "connTimer", wire)
    /\ UNCHANGED <<disc, life>>

\* the write callback of a time request
ConnWriteDone(q) ==
    /\ ConnOf(q).writing
    /\ Commit([Machine EXCEPT !.pb.sequenceConnections[q] = connOnWriteDone(@)],
              "connWriteDone", wire)
    /\ UNCHANGED <<disc, life>>

\* the server answers a time request of the object
ConnReply(q) ==
    /\ ConnOf(q).net = "open"
    /\ ConnOf(q).unanswered > 0
    /\ \E f \in 0..1 :
          Commit([Machine EXCEPT !.pb.sequenceConnections[q].unanswered = @ - 1,
                                 !.calls = connHandleData(ConnOf(q), TimeReply(0, 0, 0, f))],
                 "connReply", wire)
    /\ UNCHANGED <<disc, life>>

\* updateState(state) is called on the object, as updateSequenceState does
\* when a status reply for q is handled
ConnUpdateState(q) ==
    /\ \E state \in {"Play", "Stop"} :
          Commit([Machine EXCEPT !.pb.sequenceConnections[q] = connUpdateState(@, state)],
                 "connUpdateState", wire)
    /\ UNCHANGED <<disc, life>>

(***************************************************************************)
(* Events of a discarded SequenceConnection z.                             *)
(***************************************************************************)
Discarded(z, z1, op) ==
    /\ Commit([Machine EXCEPT !.discarded = (@ \ {z}) \cup {z1}], op, wire)
    /\ UNCHANGED <<disc, life>>

\* the write callback of a request written before the object was discarded
DiscardedWriteDone(z) == z.writing /\ Discarded(z, connOnWriteDone(z), "discardedWriteDone")

\* a timeout the discarded object scheduled fires
DiscardedTimer(z) == z.pollTimer = "armed" /\ Discarded(z, connOnTimer(z), "discardedTimer")

\* the 'close' event of the destroyed socket
DiscardedClose(z) == z.net = "destroyed" /\ Discarded(z, connOnClose(z), "discardedClose")

(***************************************************************************)
(* Buffers the header checks refuse.  Each is made from a frame that would *)
(* be handled if it passed: on the Control Connection a status reply, an   *)
(* error reply, an ID reply and a name reply, on a SequenceConnection a    *)
(* time reply.                                                             *)
(***************************************************************************)
HandledFrames(domain) ==
    { Message(domain, writeShort(CommandId.GetSeqTransportMode), writeInt(1)),
      Message(domain, <<255, 255>>, <<>>),
      Message(domain, writeShort(CommandId.GetSequenceIds),
              writeInt(1) \o writeInt(0) \o writeInt32LE(1)),
      Message(domain, writeShort(CommandId.GetSequenceName), writeShort(1) \o <<65>>) }

ConnHandledFrames(domain) ==
    { Message(domain, writeShort(CommandId.GetSeqTime),
              writeInt(0) \o writeInt(0) \o writeInt(0) \o writeInt(1)) }

RefusedKinds == {"frameTooShort", "frameBadMagic", "frameOtherDomain"}

\* the first 18 bytes of a frame (or nothing at all); a frame whose first
\* byte is not 'P'; a frame of another domain
Refused(kind, frame) ==
    CASE kind = "frameTooShort" -> SubSeq(frame, 1, 18)
      [] kind = "frameBadMagic" -> [frame EXCEPT ![1] = 0]
      [] kind = "frameOtherDomain" ->
             SubSeq(frame, 1, 5) \o writeInt(readInt32BE(frame, 5) + 1)
                 \o SubSeq(frame, 10, Len(frame))

\* the 'data' handler of control socket s runs on a refused buffer
RefusedFrameArrives(s) ==
    /\ socks[s] = "open"
    /\ \E kind \in RefusedKinds, frame \in HandledFrames(ConfiguredDomain) :
          Commit(handleData(Machine, Refused(kind, frame)), kind, wire)
    /\ UNCHANGED <<disc, life>>

\* the 'data' handler of the SequenceConnection of q runs on a refused buffer
ConnRefusedFrameArrives(q) ==
    /\ ConnOf(q).net = "open"
    /\ \E kind \in RefusedKinds, frame \in ConnHandledFrames(ConfiguredDomain) :
          Commit([Machine EXCEPT !.calls = connHandleData(ConnOf(q), Refused(kind, frame))],
                 "conn" \o kind, wire)
    /\ UNCHANGED <<disc, life>>

(***************************************************************************)
(* Replies cut short: a frame with the magic and the configured domain     *)
(* that ends after its command identifier or inside the payload its case   *)
(* of handleData reads at fixed offsets.                                   *)
(***************************************************************************)
TruncatedKinds == {"truncatedStatus", "truncatedNextCue", "truncatedIds", "truncatedName"}

\* a complete reply of each kind
FullReply(kind) ==
    CASE kind = "truncatedStatus" -> StatusReply(1)
      [] kind = "truncatedNextCue" -> NextCueReply(0, 0, 0, 1)
      [] kind = "truncatedIds" -> IdsReply(<<1>>)
      [] kind = "truncatedName" -> NameReply(<<65>>)

\* the length from which the fixed-offset reads of the case fit: the test
\* data.length >= 23 of the status case, readInt32BE(31) of the next-cue
\* case, readInt32BE(19) of the ID case, readInt16BE(19) of the name case
ReadEnd(kind) ==
    CASE kind = "truncatedStatus" -> 19 + 4
      [] kind = "truncatedNextCue" -> 31 + 4
      [] kind = "truncatedIds" -> 19 + 4
      [] kind = "truncatedName" -> 19 + 2

\* the 'data' handler of control socket s runs on a reply cut short
TruncatedReplyArrives(s) ==
    /\ socks[s] = "open"
    /\ \E kind \in TruncatedKinds :
          \E n \in 19..(ReadEnd(kind) - 1) :
              Commit(handleData(Machine, SubSeq(FullReply(kind), 1, n)), kind, wire)
    /\ UNCHANGED <<disc, life>>

(***************************************************************************)
(* The complete system.                                                    *)
(***************************************************************************)
Next ==
    \/ Connect
    \/ Disconnect
    \/ SetPollSequences
    \/ RefreshSequences
    \/ Command
    \/ Tick
    \/ \E s \in 1..Len(socks) :
          \/ SockConnected(s)
          \/ SockError(s)
          \/ SockClose(s)
          \/ StatusReplyArrives(s, StateInts)
          \/ StatusErrorArrives(s)
          \/ IdsReplyArrives(s)
          \/ NameReplyArrives(s)
          \/ NameErrorArrives(s)
          \/ RefusedFrameArrives(s)
          \/ TruncatedReplyArrives(s)
    \/ \E q \in DOMAIN pb.sequenceConnections :
          \/ ConnRefusedFrameArrives(q)
          \/ ConnConnected(q)
          \/ ConnError(q)
          \/ ConnClose(q)
          \/ ConnTimer(q)
          \/ ConnWriteDone(q)
          \/ ConnReply(q)
    \/ \E z \in discarded :
          \/ DiscardedWriteDone(z)
          \/ DiscardedTimer(z)
          \/ DiscardedClose(z)

Spec == Init /\ [][Next]_vars

(***************************************************************************)
(* The status pipeline of a Control Connection that is connected and stays *)
(* connected: the scheduler tick, setPollSequences and the server's        *)
(* replies to status requests, in every interleaving.                      *)
(***************************************************************************)
NextStatus ==
    \/ Connect
    \/ SetPollSequences
    \/ Tick
    \/ \E s \in 1..Len(socks) :
          \/ SockConnected(s)
          \/ StatusReplyArrives(s, PlayStop)
          \/ StatusErrorArrives(s)

SpecStatus == Init /\ [][NextStatus]_vars

(***************************************************************************)
(* The discovery pipeline of a connected Control Connection:               *)
(* refreshSequences and the server's replies to ID and name requests.      *)
(***************************************************************************)
NextDiscovery ==
    \/ Connect
    \/ RefreshSequences
    \/ \E s \in 1..Len(socks) :
          \/ SockConnected(s)
          \/ IdsReplyArrives(s)
          \/ NameReplyArrives(s)
          \/ NameErrorArrives(s)

SpecDiscovery == Init /\ [][NextDiscovery]_vars

(***************************************************************************)
(* Reconciliation of the Timecode Connections with the watch set:          *)
(* setPollSequences and the outcome of each connection attempt.            *)
(***************************************************************************)
NextReconcile ==
    \/ SetPollSequences
    \/ \E q \in DOMAIN pb.sequenceConnections :
          \/ ConnConnected(q)
          \/ ConnError(q)

SpecReconcile == Init /\ [][NextReconcile]_vars

(***************************************************************************)
(* The life cycle: connect, disconnect and setPollSequences with the       *)
(* socket, timer and write callbacks they leave behind.                    *)
(***************************************************************************)
NextLifecycle ==
    \/ Connect
    \/ Disconnect
    \/ SetPollSequences
    \/ Tick
    \/ \E s \in 1..Len(socks) :
          \/ SockConnected(s)
          \/ SockClose(s)
    \/ \E q \in DOMAIN pb.sequenceConnections :
          \/ ConnConnected(q)

SpecLifecycle == Init /\ [][NextLifecycle]_vars

(***************************************************************************)
(* The command operations in every state of the control socket.            *)
(***************************************************************************)
NextCommands ==
    \/ Connect
    \/ Disconnect
    \/ Command
    \/ \E s \in 1..Len(socks) :
          \/ SockConnected(s)
          \/ SockError(s)
          \/ SockClose(s)

SpecCommands == Init /\ [][NextCommands]_vars

(***************************************************************************)
(* Refused buffers arriving on both connection kinds while the status      *)
(* pipeline and one discovery run are under way.                           *)
(***************************************************************************)
\* refreshSequences, called once
FirstRefreshSequences == disc.runs = 0 /\ RefreshSequences

NextFrames ==
    \/ Connect
    \/ SetPollSequences
    \/ FirstRefreshSequences
    \/ Tick
    \/ \E s \in 1..Len(socks) :
          \/ SockConnected(s)
          \/ IdsReplyArrives(s)
          \/ NameReplyArrives(s)
          \/ RefusedFrameArrives(s)
    \/ \E q \in DOMAIN pb.sequenceConnections :
          \/ ConnConnected(q)
          \/ ConnRefusedFrameArrives(q)

SpecFrames == Init /\ [][NextFrames]_vars

(***************************************************************************)
(* The status pipeline as in SpecStatus, the server answering with any of  *)
(* the state integers StateInts.                                           *)
(***************************************************************************)
NextStatusReplies ==
    \/ Connect
    \/ SetPollSequences
    \/ Tick
    \/ \E s \in 1..Len(socks) :
          \/ SockConnected(s)
          \/ StatusReplyArrives(s, StateInts)
          \/ StatusErrorArrives(s)

SpecStatusReplies == Init /\ [][NextStatusReplies]_vars

(***************************************************************************)
(* Both pipelines of a Control Connection with a server that answers       *)
(* status requests and name requests with the error sentinel: connect,     *)
(* setPollSequences, one refreshSequences, the tick, ID replies and error  *)
(* replies.                                                                *)
(***************************************************************************)
NextErrorReplies ==
    \/ Connect
    \/ SetPollSequences
    \/ FirstRefreshSequences
    \/ Tick
    \/ \E s \in 1..Len(socks) :
          \/ SockConnected(s)
          \/ IdsReplyArrives(s)
          \/ StatusErrorArrives(s)
          \/ NameErrorArrives(s)

SpecErrorReplies == Init /\ [][NextErrorReplies]_vars

(***************************************************************************)
(* Both pipelines of a Control Connection that receives replies cut short: *)
(* connect, setPollSequences, one refreshSequences, the tick, ID replies   *)
(* and truncated replies.                                                  *)
(***************************************************************************)
NextTruncated ==
    \/ Connect
    \/ SetPollSequences
    \/ FirstRefreshSequences
    \/ Tick
    \/ \E s \in 1..Len(socks) :
          \/ SockConnected(s)
          \/ IdsReplyArrives(s)
          \/ TruncatedReplyArrives(s)

SpecTruncated == Init /\ [][NextTruncated]_vars

(***************************************************************************)
(* The Timecode Connections of one watch set: setPollSequences creates     *)
(* them, their sockets connect, their poll timers fire, their writes       *)
(* complete, the server answers, and updateState reaches them.             *)
(***************************************************************************)
FirstSetPollSequences == pb.pollSequenceIds = <<>> /\ SetPollSequences

NextTimecode ==
    \/ FirstSetPollSequences
    \/ \E q \in DOMAIN pb.sequenceConnections :
          \/ ConnConnected(q)
          \/ ConnTimer(q)
          \/ ConnWriteDone(q)
          \/ ConnReply(q)
          \/ ConnUpdateState(q)

SpecTimecode == Init /\ [][NextTimecode]_vars

(***************************************************************************)
(* Status polling of one watch set on a connection that stays up, with a   *)
(* server that answers every status request with a status reply.  The      *)
(* interval timer keeps firing while it is set (setInterval), and a reply  *)
(* that is due is eventually delivered.                                    *)
(***************************************************************************)
NextPolling ==
    \/ Connect
    \/ FirstSetPollSequences
    \/ Tick
    \/ \E s \in 1..Len(socks) :
          \/ SockConnected(s)
          \/ StatusReplyArrives(s, StateInts)

\* a status request is at the head of the wire of an open socket: the
\* server's reply to it can be delivered
ReplyDue == \E s \in 1..Len(socks) : Answerable(s, CommandId.GetSeqTransportMode)

\* weak fairness of the delivery of status replies, written out: a reply
\* that stays due is delivered (the delivery is enabled exactly when
\* ReplyDue holds: it shortens the wire by one request and adds at most one)
FairReplies ==
    \/ []<>(~ReplyDue)
    \/ []<><<\E s \in 1..Len(socks) : StatusReplyArrives(s, StateInts)>>_vars

SpecPolling ==
    /\ Init
    /\ [][NextPolling]_vars
    /\ WF_vars(Tick)
    /\ FairReplies

(***************************************************************************)
(* Status polling and time polling side by side, with a server that        *)
(* answers status requests with the error sentinel: connect, a watch set,  *)
(* the tick, error replies, and the SequenceConnections connecting and     *)
(* polling.                                                                *)
(***************************************************************************)
NextEviction ==
    \/ Connect
    \/ FirstSetPollSequences
    \/ Tick
    \/ \E s \in 1..Len(socks) :
          \/ SockConnected(s)
          \/ StatusErrorArrives(s)
    \/ \E q \in DOMAIN pb.sequenceConnections :
          \/ ConnConnected(q)
          \/ ConnTimer(q)
          \/ ConnWriteDone(q)

SpecEviction == Init /\ [][NextEviction]_vars

(***************************************************************************)
(* Watched IDs removed and added again: setPollSequences with any list at  *)
(* any time, the objects' sockets connect, their timers fire, their writes *)
(* complete, updateState reaches them, and the discarded objects' own      *)
(* callbacks run.                                                          *)
(***************************************************************************)
NextReadd ==
    \/ SetPollSequences
    \/ \E q \in DOMAIN pb.sequenceConnections :
          \/ ConnConnected(q)
          \/ ConnTimer(q)
          \/ ConnWriteDone(q)
          \/ ConnUpdateState(q)
    \/ \E z \in discarded :
          \/ DiscardedWriteDone(z)
          \/ DiscardedTimer(z)
          \/ DiscardedClose(z)

SpecReadd == Init /\ [][NextReadd]_vars

(***************************************************************************)
(* Properties of the status pipeline (SpecStatus).                         *)
(***************************************************************************)
\* C1: at every instant at most one status request (GetSeqTransportMode)
\* written to a control socket is still waiting for its reply, whatever the
\* interleaving of ticks, setPollSequences calls and replies
C1_OneStatusRequestOutstanding ==
    \A s \in 1..Len(wire) : CountCmd(wire[s], CommandId.GetSeqTransportMode) <= 1

\* a tick has just refilled the queue while a status request was waiting
\* for its reply, and has written nothing
C1_TickWhileRequestOutstanding ==
    /\ step.op = "tick"
    /\ step.written = 0
    /\ pb.statusRequestPending
    /\ pb.statusRequestQueue # <<>>
    /\ pb.statusRequestQueue = pb.pollSequenceIds
    /\ \E s \in 1..Len(wire) : CountCmd(wire[s], CommandId.GetSeqTransportMode) = 1

\* C6: an error reply that answers a status request lets the status queue
\* advance: the next queued ID is requested in the same step, or, with
\* nothing queued, the cursor is cleared and the pipeline is free for the
\* next tick
C6_ErrorReplyAdvancesQueue ==
    step.op = "statusError" =>
        \/ step.written = 1
        \/ /\ pb.statusRequestQueue = <<>>
           /\ pb.currentStatusRequestId = Null
           /\ ~pb.statusRequestPending

(***************************************************************************)
(* Properties of the discovery pipeline (SpecDiscovery).                   *)
(***************************************************************************)
\* C2: at every instant at most one name request (GetSequenceName) written
\* to a control socket is still waiting for its reply, whatever the
\* interleaving of refreshSequences calls, ID replies and name replies
C2_OneNameRequestOutstanding ==
    \A s \in 1..Len(wire) : CountCmd(wire[s], CommandId.GetSequenceName) <= 1

\* refreshSequences was called once, the server has returned its ID list
\* and has answered one name request for each ID of the list, in order
SingleRunAnswered ==
    /\ disc.runs = 1
    /\ disc.ids # Null
    /\ Len(disc.answers) = Len(disc.ids[1])
    /\ \A i \in 1..Len(disc.answers) : disc.answers[i].id = disc.ids[1][i]

\* the answers of the server that carried a name
AnsweredWithName == SelectSeq(disc.answers, LAMBDA a : a.name # Null)

\* C3: in a single discovery run in which every name request is answered
\* with a name, onSequencesUpdated receives, once, the IDs of the ID reply
\* in its order, each with the name returned for it
C3_SingleRunDeliversList ==
    (SingleRunAnswered /\ AnsweredWithName = disc.answers) =>
        disc.notified =
            << [i \in 1..Len(disc.answers) |->
                   [id |-> disc.answers[i].id, name |-> disc.answers[i].name[1]]] >>

\* C4: in a single discovery run in which some name requests are answered
\* by the error sentinel and the others with a name, onSequencesUpdated
\* fires once the last answer has arrived, with exactly the IDs that were
\* answered with a name
C4_ErroredIdsOmitted ==
    (SingleRunAnswered /\ AnsweredWithName # disc.answers /\ AnsweredWithName # <<>>) =>
        /\ Len(disc.notified) = 1
        /\ [i \in 1..Len(disc.notified[1]) |-> disc.notified[1][i].id]
               = [i \in 1..Len(AnsweredWithName) |-> AnsweredWithName[i].id]

\* C5: in a discovery run, once the ID reply has been processed, the
\* consumer has been notified exactly once if the number of recorded names
\* equals the number of expected IDs, and not at all otherwise
C5_NotifiedOnceWhenCountsEqual ==
    (disc.runs = 1 /\ disc.ids # Null) =>
        Len(disc.notified) = (IF AllNamesArrived(pb) THEN 1 ELSE 0)

(***************************************************************************)
(* Properties of the reconciliation (SpecReconcile).                       *)
(***************************************************************************)
\* no connection attempt is in progress and no reconciliation is suspended
AttemptsFinished ==
    /\ recon = {}
    /\ \A q \in DOMAIN pb.sequenceConnections : ConnOf(q).net # "connecting"

\* C7: after any sequence of setPollSequences calls, once all connection
\* attempts have finished, the sequence IDs that own a SequenceConnection
\* are exactly the IDs of the watch set supplied last
C7_ConnectionsMatchWatchSet ==
    AttemptsFinished => DOMAIN pb.sequenceConnections = life.supplied

(***************************************************************************)
(* Properties of the life cycle (SpecLifecycle).                           *)
(***************************************************************************)
\* C8: after disconnect(), until connect or setPollSequences is called
\* again, the status-poll timer is stopped, the control socket is absent,
\* no SequenceConnection is connected or has a poll scheduled, and no step
\* constructs a SequenceConnection or writes a frame
C8_QuietAfterDisconnect ==
    life.disconnected =>
        /\ ~pb.statusPollTimer
        /\ pb.socket = 0
        /\ \A q \in DOMAIN pb.sequenceConnections :
               ~ConnOf(q).connected /\ ConnOf(q).pollTimer # "armed"
        /\ \A z \in discarded : ~z.connected /\ z.pollTimer # "armed"
        /\ step.created = 0
        /\ step.written = 0

RefusedOps == RefusedKinds \cup {"conn" \o kind : kind \in RefusedKinds}

\* C9: on both connection kinds a buffer shorter than 19 bytes, with a
\* wrong magic or of another domain invokes no callback (the catch clause
\* included, so no exception was raised), writes nothing and leaves the
\* client, its SequenceConnections, the suspended reconciliations, the
\* sockets and the waiting requests as they were
C9_RefusedFramesIgnored ==
    [][ step'.op \in RefusedOps =>
            /\ step'.calls = <<>>
            /\ step'.written = 0
            /\ step'.created = 0
            /\ UNCHANGED <<pb, discarded, recon, socks, wire, disc, life>> ]_vars

\* a frame of another domain has just arrived on the Control Connection
\* while a status request and a name request were outstanding and a name
\* was already recorded
C9_OtherDomainWhilePipelinesBusy ==
    /\ step.op = "frameOtherDomain"
    /\ pb.statusRequestPending
    /\ pb.currentStatusRequestId # Null
    /\ pb.currentSequenceNameId # Null
    /\ pb.pendingSequenceNames # EmptyMap
    /\ \E q \in DOMAIN pb.sequenceConnections : ConnOf(q).connected

(***************************************************************************)
(* Properties of the time polling of a SequenceConnection (SpecTimecode).  *)
(***************************************************************************)
\* C11 (as stated): right after updateState("Play") on a connected
\* SequenceConnection, the poll that is scheduled is due after POLL_FAST.
C11_NextPollFast ==
    \A q \in DOMAIN pb.sequenceConnections :
        (/\ step.op = "connUpdateState"
         /\ ConnOf(q).connected
         /\ ConnOf(q).currentState = "Play"
         /\ ConnOf(q).pollTimer = "armed")
        => ConnOf(q).interval = POLL_FAST

\* C11: updateState leaves a timeout that is already armed as it is; every
\* timeout armed afterwards is due after POLL_FAST when the state at that
\* moment is "Play", and after POLL_SLOW otherwise.
C11_PollsScheduledAfterPlayAreFast ==
    [][\A q \in DOMAIN pb.sequenceConnections \cap DOMAIN pb'.sequenceConnections :
          /\ (step'.op = "connUpdateState")
                => /\ ConnOf(q)'.pollTimer = ConnOf(q).pollTimer
                   /\ ConnOf(q)'.interval = ConnOf(q).interval
          /\ (ConnOf(q).pollTimer # "armed" /\ ConnOf(q)'.pollTimer = "armed")
                => ConnOf(q)'.interval =
                       IF ConnOf(q).currentState = "Play" THEN POLL_FAST ELSE POLL_SLOW]_vars

\* a poll has just been scheduled after POLL_FAST, on a connected object
\* whose state is "Play", by the write callback of a time request
C11_FastPollScheduled ==
    /\ step.op = "connWriteDone"
    /\ \E q \in DOMAIN pb.sequenceConnections :
          /\ ConnOf(q).connected
          /\ ConnOf(q).currentState = "Play"
          /\ ConnOf(q).pollTimer = "armed"
          /\ ConnOf(q).interval = POLL_FAST

C13_ConnectWhenConnectedIsNoOp ==
    [][(/\ step'.op = "connect"
        /\ pb.socket # 0
        /\ socks[pb.socket] = "open")
       => /\ pb' = pb
          /\ socks' = socks
          /\ wire' = wire
          /\ recon' = recon
          /\ discarded' = discarded
          /\ step'.written = 0
          /\ step'.calls = <<>>]_vars

\* connect() has just returned on a connected client whose timer runs, with
\* a status request and a name request outstanding and an ID still queued
C13_ConnectWhilePipelinesBusy ==
    /\ step.op = "connect"
    /\ pb.socket # 0
    /\ socks[pb.socket] = "open"
    /\ Len(socks) = 1
    /\ pb.statusPollTimer
    /\ pb.statusRequestPending
    /\ pb.statusRequestQueue # <<>>
    /\ pb.currentStatusRequestId # Null
    /\ pb.currentSequenceNameId # Null

(***************************************************************************)
(* Properties of status replies (SpecStatusReplies).                       *)
(***************************************************************************)
\* the state name the claim gives for a state integer
C14_StateNamed(k) ==
    IF k = 1 THEN "Play" ELSE IF k = 2 THEN "Stop" ELSE IF k = 3 THEN "Pause" ELSE "Unknown"

\* the step delivers the status reply carrying k on socket s
C14_RepliedWith(s, k) ==
    /\ step'.op = "statusReply"
    /\ Answerable(s, CommandId.GetSeqTransportMode)
    /\ wire'[s] = Tail(wire[s]) \o SelectRequests(handleData(Machine, StatusReply(k)).written)
    /\ pb' = handleData(Machine, StatusReply(k)).pb

\* C14: a status reply carrying k that answers the request written for ID x
\* finds x in the cursor; it stores the state named by k for x and for no
\* other ID, calls onSequenceTransport(x, state) and nothing else, sets the
\* state of the SequenceConnection of x if there is one and changes no other
\* SequenceConnection, and then either writes the request for the next
\* queued ID (cursor on that ID, flag set) or, with nothing queued, leaves
\* the flag cleared and the cursor null.
C14_ReplyAttributedToDequeuedId ==
    [][\A s \in 1..Len(socks), k \in StateInts :
          C14_RepliedWith(s, k) =>
              LET x     == RequestArg(Head(wire[s]))
                  state == C14_StateNamed(k)
                  conns == pb.sequenceConnections
              IN  /\ pb.currentStatusRequestId = <<x>>
                  /\ DOMAIN pb'.sequenceStates = DOMAIN pb.sequenceStates \cup {x}
                  /\ \A y \in DOMAIN pb'.sequenceStates :
                        pb'.sequenceStates[y] = IF y = x THEN state ELSE pb.sequenceStates[y]
                  /\ step'.calls = << [cb |-> "onSequenceTransport", args |-> <<x, state>>] >>
                  /\ DOMAIN pb'.sequenceConnections = DOMAIN conns
                  /\ \A q \in DOMAIN conns :
                        pb'.sequenceConnections[q] =
                            IF q = x THEN [conns[q] EXCEPT !.currentState = state] ELSE conns[q]
                  /\ IF pb.statusRequestQueue = <<>>
                     THEN /\ ~pb'.statusRequestPending
                          /\ pb'.currentStatusRequestId = Null
                          /\ step'.written = 0
                     ELSE /\ pb'.statusRequestPending
                          /\ pb'.currentStatusRequestId = <<Head(pb.statusRequestQueue)>>
                          /\ pb'.statusRequestQueue = Tail(pb.statusRequestQueue)
                          /\ step'.written = 1
                          /\ RequestCmd(wire'[s][Len(wire'[s])]) = CommandId.GetSeqTransportMode
                          /\ RequestArg(wire'[s][Len(wire'[s])]) = Head(pb.statusRequestQueue)]_vars

\* a status reply for ID 1 has just been handled while both IDs have a
\* SequenceConnection: the state "Pause" went to the object of 1 only, and
\* the request for the queued ID 2 was written
C14_ReplyForOneOfTwo ==
    /\ step.op = "statusReply"
    /\ step.written = 1
    /\ step.calls = << [cb |-> "onSequenceTransport", args |-> <<1, "Pause">>] >>
    /\ pb.currentStatusRequestId = <<2>>
    /\ DOMAIN pb.sequenceConnections = {1, 2}
    /\ pb.sequenceConnections[1].currentState = "Pause"
    /\ pb.sequenceConnections[2].currentState # "Pause"

(***************************************************************************)
(* Properties of error replies with both pipelines busy (SpecErrorReplies).*)
(***************************************************************************)
\* a status request and a name request are waiting for their replies
C15_BothOutstanding ==
    \E s \in 1..Len(wire) :
        /\ CountCmd(wire[s], CommandId.GetSeqTransportMode) >= 1
        /\ CountCmd(wire[s], CommandId.GetSequenceName) >= 1

\* C15: with a status request and a name request outstanding at once, the
\* error reply that answers the name request leaves the watch set as it
\* is, and the error reply that answers the status request leaves the
\* expected discovery set as it is.
C15_ErrorEvictsFromOwnPipelineOnly ==
    [][C15_BothOutstanding =>
          /\ (step'.op = "nameError") => pb'.pollSequenceIds = pb.pollSequenceIds
          /\ (step'.op = "statusError") => pb'.pendingSequenceIds = pb.pendingSequenceIds]_vars

(***************************************************************************)
(* Properties of the time requests of a SequenceConnection (SpecTimecode). *)
(***************************************************************************)
\* C16: a SequenceConnection never has two time requests in flight: at most
\* one request it has written is still waiting for its reply.
C16_OneTimeRequestInFlight ==
    \A q \in DOMAIN pb.sequenceConnections : ConnOf(q).unanswered <= 1

(***************************************************************************)
(* Properties of the cursors across a reconnect (SpecLifecycle).           *)
(***************************************************************************)
\* a request with command identifier cmd is waiting for its reply
C17_Outstanding(cmd) == \E s \in 1..Len(wire) : CountCmd(wire[s], cmd) >= 1

\* C17: between handlers, on a client whose socket is open, the status
\* cursor is non-null exactly when a status request is outstanding, the
\* pending flag is then set, and the name cursor is non-null exactly when
\* a name request is outstanding.
C17_CursorsMatchOutstandingRequests ==
    (pb.socket # 0 /\ socks[pb.socket] = "open") =>
        /\ (pb.currentStatusRequestId # Null) <=> C17_Outstanding(CommandId.GetSeqTransportMode)
        /\ (pb.currentStatusRequestId # Null) => pb.statusRequestPending
        /\ (pb.currentSequenceNameId # Null) <=> C17_Outstanding(CommandId.GetSequenceName)

(***************************************************************************)
(* Properties of the status cycle (SpecStatus).                            *)
(***************************************************************************)
\* the step writes one request, a status request for ID x
C18_Requests(x) ==
    /\ step'.written = 1
    /\ pb'.socket # 0
    /\ wire'[pb'.socket] # <<>>
    /\ RequestCmd(wire'[pb'.socket][Len(wire'[pb'.socket])]) = CommandId.GetSeqTransportMode
    /\ RequestArg(wire'[pb'.socket][Len(wire'[pb'.socket])]) = x

\* the tick finds the queue empty and the watch set non-empty
C18_Refills == pb.statusRequestQueue = <<>> /\ pb.pollSequenceIds # <<>>

\* C18: a tick that finds the queue empty and the watch set non-empty makes
\* the queue a copy of the watch set (and, with no request outstanding,
\* takes its first ID off and requests it); any other tick changes nothing.
\* Apart from that refill and the reset made by startPolling, the queue
\* only ever loses its first ID, in the step that writes the status request
\* for that ID; so the requests of a cycle are those of the copied watch
\* set, in its order, each position once.
C18_TickRefillsAndCycleIsFifo ==
    [][/\ (step'.op = "tick" /\ C18_Refills /\ pb.statusRequestPending)
            => /\ pb' = [pb EXCEPT !.statusRequestQueue = pb.pollSequenceIds]
               /\ step'.written = 0
               /\ wire' = wire
       /\ (step'.op = "tick" /\ C18_Refills /\ ~pb.statusRequestPending)
            => /\ pb' = [pb EXCEPT !.statusRequestQueue = Tail(pb.pollSequenceIds),
                                   !.currentStatusRequestId = <<Head(pb.pollSequenceIds)>>,
                                   !.statusRequestPending = TRUE]
               /\ C18_Requests(Head(pb.pollSequenceIds))
       /\ (step'.op = "tick" /\ ~C18_Refills)
            => /\ pb' = pb
               /\ wire' = wire
               /\ step'.written = 0
               /\ step'.calls = <<>>
       /\ (step'.op # "tick" /\ pb'.statusRequestQueue # pb.statusRequestQueue)
            => \/ step'.op = "connected" /\ pb'.statusRequestQueue = <<>>
               \/ /\ pb.statusRequestQueue # <<>>
                  /\ pb'.statusRequestQueue = Tail(pb.statusRequestQueue)
                  /\ C18_Requests(Head(pb.statusRequestQueue))
       /\ (step'.op # "tick" /\ step'.written > 0)
            => /\ pb.statusRequestQueue # <<>>
               /\ pb'.statusRequestQueue = Tail(pb.statusRequestQueue)
               /\ C18_Requests(Head(pb.statusRequestQueue))]_vars

\* a tick has just copied a watch set of two IDs into the empty queue and
\* requested the first of them, leaving the second queued
C18_TickStartsCycle ==
    /\ step.op = "tick"
    /\ step.written = 1
    /\ Len(pb.pollSequenceIds) = 2
    /\ pb.statusRequestQueue = Tail(pb.pollSequenceIds)
    /\ pb.currentStatusRequestId = <<Head(pb.pollSequenceIds)>>
    /\ pb.sequenceStates # EmptyMap

(***************************************************************************)
(* Properties of the eviction of a watched ID (SpecEviction).              *)
(***************************************************************************)
\* the IDs an error reply has removed from the watch set: those of the list
\* last given to setPollSequences that pollSequenceIds no longer holds
C19_Evicted == life.supplied \ Range(pb.pollSequenceIds)

\* C19: an ID that an error reply has removed from the watch set is no
\* longer polled for timecode: the map holds no SequenceConnection for it
\* that is connected or has a poll timeout armed or a request being written.
C19_EvictedIdNotPolled ==
    \A x \in C19_Evicted :
        MapHas(pb.sequenceConnections, x) =>
            /\ ~ConnOf(x).connected
            /\ ConnOf(x).pollTimer # "armed"
            /\ ~ConnOf(x).writing

(***************************************************************************)
(* Properties of truncated replies (SpecTruncated).                        *)
(***************************************************************************)
\* C20: a reply cut short (a next-cue reply of fewer than 35 bytes, an ID
\* reply of fewer than 23, a name reply of fewer than 21, a status reply of
\* fewer than 23) is discarded in silence: no callback is made, the error
\* callback included, nothing is written, and the queues, the cursors, the
\* pending flag and every other field of the client are as before.
C20_TruncatedReplyDiscarded ==
    [][(step'.op \in TruncatedKinds)
          => /\ pb' = pb
             /\ step'.calls = <<>>
             /\ step'.written = 0
             /\ wire' = wire]_vars

(***************************************************************************)
(* Properties of a request whose reply does not come (SpecErrorReplies).   *)
(***************************************************************************)
\* requests with command identifier cmd waiting on the wires before and
\* after the step
C21_Waiting(cmd, w) == \E s \in 1..Len(w) : CountCmd(w[s], cmd) >= 1

\* the step writes a request with command identifier cmd
C21_Writes(cmd) ==
    \E s \in 1..Len(wire') :
        CountCmd(wire'[s], cmd) > (IF s <= Len(wire) THEN CountCmd(wire[s], cmd) ELSE 0)

\* C21: while a status request is waiting for its reply, no step other than
\* the arrival of that reply writes a status request; while a name request
\* is waiting for its reply, no step other than the arrival of that reply
\* or a refreshSequences call writes a name request.
C21_NoRequestWhileReplyMissing ==
    [][/\ (/\ C21_Waiting(CommandId.GetSeqTransportMode, wire)
           /\ step'.op \notin {"statusReply", "statusError"})
            => ~C21_Writes(CommandId.GetSeqTransportMode)
       /\ (/\ C21_Waiting(CommandId.GetSequenceName, wire)
           /\ step'.op \notin {"nameReply", "nameError", "refreshSequences"})
            => ~C21_Writes(CommandId.GetSequenceName)]_vars

(***************************************************************************)
(* Properties of the timer and the socket (SpecCommands).                  *)
(***************************************************************************)
\* C22: in every state in which this.socket is null, the status-poll timer
\* is not running.
C22_NoTimerWithoutSocket == (pb.socket = 0) => ~pb.statusPollTimer

(***************************************************************************)
(* Properties of continuous status polling (SpecPolling).                  *)
(***************************************************************************)
\* the control socket is open and x is in the watch set
C23_Watched(x) ==
    /\ pb.socket # 0
    /\ socks[pb.socket] = "open"
    /\ Includes(pb.pollSequenceIds, x)

\* the last step wrote the status request for x
C23_Requested(x) ==
    /\ step.written = 1
    /\ pb.statusRequestPending
    /\ pb.currentStatusRequestId = <<x>>
    /\ pb.socket # 0
    /\ wire[pb.socket] # <<>>
    /\ RequestCmd(wire[pb.socket][Len(wire[pb.socket])]) = CommandId.GetSeqTransportMode
    /\ RequestArg(wire[pb.socket][Len(wire[pb.socket])]) = x

\* the last step handled a status reply and called onSequenceTransport for x
C23_Informed(x) ==
    /\ step.op = "statusReply"
    /\ \E i \in 1..Len(step.calls) :
          step.calls[i].cb = "onSequenceTransport" /\ step.calls[i].args[1] = x

\* C23: on a connected client whose watch set holds x (it never changes
\* once it is non-empty, and the connection stays up), with ticks firing
\* and every status request answered by a status reply, the status request
\* for x is written again and again and onSequenceTransport is called for x
\* again and again.
C23_EveryWatchedIdPolledForever ==
    \A x \in SeqIds :
        /\ C23_Watched(x) ~> C23_Requested(x)
        /\ C23_Watched(x) ~> C23_Informed(x)

\* the consumer has just been told the state of ID 2, the second of a watch
\* set of two, both of which have a stored state, and the queue is empty
C23_SecondOfTwoInformed ==
    /\ C23_Watched(1)
    /\ C23_Watched(2)
    /\ C23_Informed(2)
    /\ pb.pollSequenceIds = <<1, 2>>
    /\ DOMAIN pb.sequenceStates = {1, 2}
    /\ pb.statusRequestQueue = <<>>
    /\ ~pb.statusRequestPending

(***************************************************************************)
(* Properties of overlapping discovery runs (SpecDiscovery).               *)
(***************************************************************************)
\* C24: every {id, name} pair handed to onSequencesUpdated since the last
\* refreshSequences call carries a name the server returned, since that
\* call, in answer to a name request naming that same ID (the label
\* "Sequence <id>" standing for an empty name).
C24_NamesPairedWithTheirIds ==
    \A i \in 1..Len(disc.notified) :
        \A j \in 1..Len(disc.notified[i]) :
            LET p == disc.notified[i][j]
            IN  \E k \in 1..Len(disc.answers) :
                    /\ disc.answers[k].id = p.id
                    /\ \/ disc.answers[k].name = <<p.name>>
                       \/ /\ disc.answers[k].name = << <<>> >>
                          /\ p.name = SequenceLabel(p.id)

=============================================================================
